---- MODULE Spec2Model ----
(***************************************************************************)
(* A model of lib/ansible/plugins/connections/winrm.py: the WinRM          *)
(* connection plugin (class Connection).  One session object, driven by a  *)
(* single synchronous caller.  Every remote call of the pywinrm Protocol   *)
(* object (send_message, open_shell, run_command, get_command_output,      *)
(* cleanup_command, close_shell) is one step of the model, so that the     *)
(* states between two remote calls of one handler are visible.             *)
(*                                                                         *)
(* The module is Python 2 code (xrange, str payloads): the name bound by   *)
(* "except WinRMTransportError as exc" survives the except block.          *)
(***************************************************************************)
EXTENDS Integers, Sequences, FiniteSets

VARIABLES
    cfg,          \* _connection_info.port, HAVE_KERBEROS, '@' in remote_user
    protocol,     \* self.protocol
    shell_id,     \* self.shell_id (0 is None)
    op,           \* the public method being executed, "idle" between calls
    pc,           \* the remote call the handler is about to make
    calls,        \* number of public calls made so far
    outcome,      \* what the last finished public call returned or raised
    idx,          \* _winrm_connect: position in the attempt list
    exc,          \* _winrm_connect: local variable exc
    probes,       \* _winrm_connect: probes sent by the current negotiation
    negResult,    \* _winrm_connect: how the current negotiation ended
    negCount,     \* number of times _winrm_connect was invoked
    command_id,   \* _winrm_exec: local variable command_id (0 is None)
    pending,      \* _winrm_exec: the response or exception on its way out
    openShells,   \* remote side: shell handles open
    openCmds,     \* remote side: command handles open
    released,     \* remote side: shell handles given to close_shell, in order
    entry,        \* session and file state at the start of the current call
    remote,       \* remote side: what the remote path holds
    remote_ps1,   \* remote side: what the remote path with '.ps1' added holds
    local,        \* local side: what the local destination path holds
    in_file,      \* put_file: the local source file
    buffer_size,  \* put_file: local variable buffer_size
    offset,       \* put_file, fetch_file: local variable offset
    out_file,     \* fetch_file: whether out_file is an open file
    dest,         \* put_file: the argument out_path as the caller passed it
    out_path,     \* put_file: local variable out_path
    script_len,   \* put_file: len(script) of the script measured at line 197
    sent,         \* commands the current call has issued with run_command
    faulted,      \* whether a remote call of the current call was made to fail
    uploaded      \* whether the last put_file returned normally, unfaulted

vars == <<cfg, protocol, shell_id, op, pc, calls, outcome, idx, exc, probes,
          negResult, negCount, command_id, pending, openShells, openCmds,
          released, entry, remote, local, in_file, buffer_size, offset,
          out_file, sent, faulted, uploaded, remote_ps1, dest, out_path,
          script_len>>

-----------------------------------------------------------------------------
(* Bounds of the model *)

\* Public calls made on the session in one behaviour
MaxOps == 3

\* Largest local file uploaded, in bytes
MaxSize == 6

\* fetch_file's buffer_size, 2**19 in the source, scaled down to keep the
\* files of the model small; it stays above the two bytes that the remote
\* script returns for an empty read
FetchBufferSize == 3

-----------------------------------------------------------------------------
(* Values *)

NoProtocol == [transport |-> "none", scheme |-> "none"]

\* A WinRMTransportError message, as far as _winrm_connect reads it: whether
\* it matches Operation\s+?timed\s+?out, and the first Code\s+?(\d{3}) in it
\* (0 when the pattern does not match).  ok marks a probe that did not raise.
NoExc == [ok |-> FALSE, timedOut |-> FALSE, code |-> -1]

ProbeOk == [ok |-> TRUE, timedOut |-> FALSE, code |-> 0]

ErrorCodes == {0, 401, 411, 500}

TransportErrors == [ok : {FALSE}, timedOut : BOOLEAN, code : ErrorCodes]

ProbeOutcomes == {ProbeOk} \cup TransportErrors

\* An exception or a return: its type, the transport error text and the
\* remote std_err text that its message carries
Error(type, text) == [type |-> type, text |-> text, std_err |-> ""]

NoOutcome == Error("none", NoExc)

Ok == Error("ok", NoExc)

NoPending == [kind |-> "none", status |-> 0, dir |-> FALSE, data |-> <<>>,
              std_err |-> "", err |-> NoOutcome]

\* What a remote script that fails writes to its error stream
StdErr == "remote error text"

\* A winrm Response: status_code, and std_out as far as fetch_file reads it
\* (the '[DIR]' sentinel, or the bytes that the base64 text decodes to)
Output(status, dir, data) ==
    [kind |-> "response", status |-> status, dir |-> dir, data |-> data,
     std_err |-> IF status = 0 THEN "" ELSE StdErr, err |-> NoOutcome]

Response(status) == Output(status, FALSE, <<>>)

Raise(e) == [kind |-> "raise", status |-> 0, dir |-> FALSE, data |-> <<>>,
             std_err |-> "", err |-> e]

NoPath == [kind |-> "none", data |-> <<>>]

Directory == [kind |-> "dir", data |-> <<>>]

File(data) == [kind |-> "file", data |-> data]

\* Content found at the remote path before the session touches it
Stale == File(<<9, 9>>)

\* Local source files: byte i of a file of n bytes is 1 + (i - 1) mod 3
Payload(n) == [i \in 1..n |-> ((i - 1) % 3) + 1]

NoFile == [exists |-> FALSE, data |-> <<>>]

LocalFile(n) == [exists |-> TRUE, data |-> Payload(n)]

Min(a, b) == IF a < b THEN a ELSE b

Max(a, b) == IF a < b THEN b ELSE a

\* port = self._connection_info.port or 5986
DefaultPort == 5986

\* The port that selects the 'http' list of transport_schemes
HttpPort == 5985

\* "max windows command length" of put_file
MaxCommandLength == 8190

\* Values of _connection_info.port: unset (0), the http port, another port
Ports == {0, HttpPort, DefaultPort}

-----------------------------------------------------------------------------
(* _winrm_connect *)

transport_schemes ==
    [http  |-> << <<"kerberos", "http">>, <<"plaintext", "http">>,
                  <<"plaintext", "https">> >>,
     https |-> << <<"kerberos", "https">>, <<"plaintext", "https">> >>]

\* port = self._connection_info.port or 5986
Port == IF cfg.port = 0 THEN DefaultPort ELSE cfg.port

\* self.transport_schemes['http' if port == 5985 else 'https']
Attempts == IF Port = HttpPort THEN transport_schemes.http ELSE transport_schemes.https

\* if transport == 'kerberos' and (not HAVE_KERBEROS or not '@' in remote_user)
Skip(att) == att[1] = "kerberos" /\ (~cfg.have_kerberos \/ ~cfg.user_has_at)

ClassifyNoTimeout(err) ==
    IF err.code = 401 THEN "auth"
    ELSE IF err.code = 411 THEN "protocol"
    ELSE "continue"

ClassifyNo401(err) ==
    IF err.timedOut THEN "timeout"
    ELSE IF err.code = 411 THEN "protocol"
    ELSE "continue"

ClassifyNo411(err) ==
    IF err.timedOut THEN "timeout"
    ELSE IF err.code = 401 THEN "auth"
    ELSE "continue"

\* The except block: the timeout pattern is searched first, then the code.
Classify(err) ==
    IF err.timedOut THEN "timeout"
    ELSE IF err.code = 401 THEN "auth"
    ELSE IF err.code = 411 THEN "protocol"
    ELSE "continue"

BindExcFirst(old, err) == IF old = NoExc THEN err ELSE old

\* except WinRMTransportError as exc: rebinds exc at every error
BindExc(old, err) == err

\* Protocol(endpoint, transport=transport, ...)
NewProtocol(att) == [transport |-> att[1], scheme |-> att[2]]

\* What one pass of the loop body does with the outcome of send_message('')
ProbeStep(att, out) ==
    IF out.ok THEN [kind |-> "return", err |-> NoOutcome]
    ELSE LET c == Classify(out) IN
         IF c = "timeout" THEN [kind |-> "raise", err |-> Error("timeout", NoExc)]
         ELSE IF c = "auth" THEN [kind |-> "raise", err |-> Error("auth", NoExc)]
         ELSE IF c = "protocol" THEN [kind |-> "return", err |-> NoOutcome]
         ELSE [kind |-> "continue", err |-> NoOutcome]

\* After the loop: if exc: raise AnsibleError(str(exc)); else falls off the end
Exhausted(e) ==
    IF e # NoExc THEN [kind |-> "raise", err |-> Error("transport", e)]
    ELSE [kind |-> "None", err |-> NoOutcome]

-----------------------------------------------------------------------------
(* _winrm_exec *)

NeedsConnectAlways(p) == TRUE

\* if not self.protocol
NeedsConnect(p) == p = NoProtocol

NeedsShellAlways(s) == TRUE

\* if not self.shell_id
NeedsShell(s) == s = 0

NeedsCleanupNever(c) == FALSE

\* finally: if command_id
NeedsCleanup(c) == c # 0

\* The first remote call _winrm_exec makes, given the session's handles
ExecPc(p, s) ==
    IF NeedsConnect(p) THEN "winrm_connect"
    ELSE IF NeedsShell(s) THEN "open_shell"
    ELSE "run_command"

\* The remote side hands out handles it has not handed out before
FreshShell == CHOOSE n \in 1..(Cardinality(openShells) + Len(released) + 1) :
                  n \notin openShells /\ \A k \in 1..Len(released) : released[k] # n

FreshCmd == CHOOSE n \in 1..(Cardinality(openCmds) + 1) : n \notin openCmds

negVars == <<idx, exc, probes, negResult, negCount>>

remoteVars == <<openShells, openCmds, released>>

xferVars == <<in_file, buffer_size, offset, out_file, uploaded, dest,
              out_path, script_len>>

NegIdle == [kind |-> "idle", err |-> NoOutcome]

-----------------------------------------------------------------------------
(* The remote scripts of put_file and fetch_file *)

WriteChunkNoSetLength(old, off, chunk, size) ==
    File([i \in 1..Max(Len(old.data), off + Len(chunk)) |->
            IF i > off /\ i <= off + Len(chunk) THEN chunk[i - off]
            ELSE IF i <= Len(old.data) THEN old.data[i]
            ELSE 0])

\* The script of put_file: OpenWrite (no truncation), Seek(offset), Write of
\* the decoded block, SetLength(in_size), Close.  Bytes never written read 0.
WriteChunk(old, off, chunk, size) ==
    File([i \in 1..size |->
            IF i > off /\ i <= off + Len(chunk) THEN chunk[i - off]
            ELSE IF i <= Len(old.data) THEN old.data[i]
            ELSE 0])

\* The script of fetch_file on a regular file: Seek(offset), Read of up to
\* buffer_size bytes into a zeroed buffer, $bytes = $buffer[0..($bytesRead-1)].
\* With $bytesRead = 0 the range 0..-1 is the two indices 0 and -1: the first
\* and the last byte of the buffer, both zero.
ReadChunk(data, off, size) ==
    LET bytesRead == Min(size, Max(0, Len(data) - off)) IN
    IF bytesRead = 0 THEN <<0, 0>>
    ELSE SubSeq(data, off + 1, off + bytesRead)

\* The script of fetch_file: a leaf prints its base64 text, a container
\* prints [DIR], anything else writes an error and exits 1
FetchScript(r, off, size) ==
    IF r.kind = "file" THEN Output(0, FALSE, ReadChunk(r.data, off, size))
    ELSE IF r.kind = "dir" THEN Output(0, TRUE, <<>>)
    ELSE Response(1)

-----------------------------------------------------------------------------
(* put_file, fetch_file: local computations *)

\* Lengths of the script that carries no data (line 197), the remote path
\* being long enough to leave room for few bytes only: the lengths of its
\* encoded command are 8180, 8184, 8188 and 8196
ScriptLens == {3036, 3037, 3039, 3042}

\* The command line _encode_script puts before the encoded script:
\* 'PowerShell -NoProfile -NonInteractive -ExecutionPolicy Unrestricted
\* -EncodedCommand ', 84 characters
PrefixLen == 84

\* len(_encode_script(script)) for a script of n characters: the script in a
\* 16-bit-per-character encoding (2n bytes), then in base64 (4 characters
\* for every 3 bytes, padded)
EncodedLen(n) == PrefixLen + 4 * ((2 * n + 2) \div 3)

\* len(base64.b64encode(out_data)) for b bytes
B64Len(b) == 4 * ((b + 2) \div 3)

\* len("%d" % n) for n >= 0
Digits(n) == IF n < 10 THEN 1 ELSE IF n < 100 THEN 2 ELSE 3

\* buffer_size = int(((8190 - len(cmd)) / 2.67) / 1.35): true division, and
\* int() truncates towards zero
BufferSize(cmdLen) ==
    LET d == MaxCommandLength - cmdLen IN
    IF d >= 0 THEN (d * 10000) \div 36045
    ELSE 0 - (((0 - d) * 10000) \div 36045)

\* out_data = in_file.read(buffer_size), the file being read sequentially
Chunk(data, off, size) == SubSeq(data, off + 1, Min(off + size, Len(data)))

\* The '#!powershell' of line 207, scaled to two bytes ('#', 'p') as the
\* chunks of the model are a few bytes long; 80 stands for 'P'
Marker == <<35, 112>>

\* str.lower() on the bytes of a chunk
Lower(d) == [i \in 1..Len(d) |-> IF d[i] = 80 THEN 112 ELSE d[i]]

\* str.startswith
StartsWith(d, prefix) ==
    /\ Len(d) >= Len(prefix)
    /\ SubSeq(d, 1, Len(prefix)) = prefix

\* A remote path is the sequence of its pieces, the extension being the last
BasePath == <<"file">>

\* out_path.lower().endswith('.ps1')
EndsWithPs1(path) ==
    /\ Len(path) > 0
    /\ path[Len(path)] \in {".ps1", ".PS1"}

NextOutPathAnyOffset(path, off, out_data) ==
    IF StartsWith(Lower(out_data), Marker) /\ ~EndsWithPs1(path)
    THEN path \o <<".ps1">>
    ELSE path

\* Lines 206-208: out_path once the chunk read at offset off is looked at
NextOutPath(path, off, out_data) ==
    IF off = 0 /\ StartsWith(Lower(out_data), Marker) /\ ~EndsWithPs1(path)
    THEN path \o <<".ps1">>
    ELSE path

\* makedirs_safe(out_path): creates the directory unless the path exists
MakeDirsSafe(l) == IF l.kind = "none" THEN Directory ELSE l

-----------------------------------------------------------------------------
(* The public methods *)

\* A public method is called: the caller is synchronous, one call at a time
StartCall ==
    /\ pc = "idle"
    /\ calls < MaxOps
    /\ calls' = calls + 1
    /\ entry' = [connected |-> protocol # NoProtocol, shell |-> shell_id,
                 negCount |-> negCount, remote |-> remote, local |-> local]
    /\ sent' = 0
    /\ faulted' = FALSE

Running(name) ==
    /\ op' = name
    /\ outcome' = [op |-> name, type |-> "running", text |-> NoExc,
                   std_err |-> ""]

\* The call returns (e is Ok) or raises e without having made a remote call
Done(name, e) ==
    /\ op' = "idle"
    /\ pc' = "idle"
    /\ outcome' = [op |-> name, type |-> e.type, text |-> e.text,
                   std_err |-> e.std_err]

\* _winrm_connect is entered: exc = None, the loop starts at the first attempt
StartNeg ==
    /\ idx' = 1
    /\ exc' = NoExc
    /\ probes' = <<>>
    /\ negResult' = [kind |-> "running", err |-> NoOutcome]
    /\ negCount' = negCount + 1

\* _winrm_exec is entered: lines 132-136 up to its first remote call
EnterExec ==
    /\ pc' = ExecPc(protocol, shell_id)
    /\ IF NeedsConnect(protocol) THEN StartNeg ELSE UNCHANGED negVars
    /\ command_id' = 0
    /\ pending' = NoPending

\* def _connect(self)
connect ==
    /\ StartCall
    /\ IF NeedsConnect(protocol)
       THEN /\ Running("_connect")
            /\ pc' = "winrm_connect"
            /\ StartNeg
       ELSE /\ Done("_connect", Ok)
            /\ UNCHANGED negVars
    /\ UNCHANGED <<cfg, protocol, shell_id, command_id, pending, remoteVars,
                   remote, local, xferVars,
                   remote_ps1>>

\* def exec_command(self, cmd, ...)
exec_command ==
    /\ StartCall
    /\ Running("exec_command")
    /\ EnterExec
    /\ UNCHANGED <<cfg, protocol, shell_id, remoteVars, remote, local,
                   xferVars,
                   remote_ps1>>

\* self.shell_id once close has run with a shell to release
ShellAfterCloseKept(s) == s

ShellAfterClose(s) == 0

\* def close(self); close_shell is taken to succeed
close ==
    /\ StartCall
    /\ Done("close", Ok)
    /\ IF protocol # NoProtocol /\ shell_id # 0
       THEN /\ openShells' = openShells \ {shell_id}
            /\ released' = Append(released, shell_id)
            /\ shell_id' = ShellAfterClose(shell_id)
       ELSE UNCHANGED <<openShells, released, shell_id>>
    /\ UNCHANGED <<cfg, protocol, negVars, command_id, pending, openCmds,
                   remote, local, xferVars,
                   remote_ps1>>

\* def put_file(self, in_path, out_path), up to the first remote call
put_file(Files, Lens, Paths) ==
    /\ StartCall
    /\ \E f \in Files, len \in Lens, path \in Paths :
         LET size == BufferSize(EncodedLen(len)) IN
         /\ in_file' = f
         /\ script_len' = len
         /\ dest' = path
         /\ out_path' = IF f.exists /\ size > 0 /\ Len(f.data) > 0
                        THEN NextOutPath(path, 0, Chunk(f.data, 0, size))
                        ELSE path
         /\ uploaded' = FALSE
         /\ IF ~f.exists
            THEN /\ Done("put_file", Error("AnsibleFileNotFound", NoExc))
                 /\ UNCHANGED <<buffer_size, offset, command_id, pending,
                                negVars>>
            ELSE /\ buffer_size' = size
                 /\ IF size = 0
                    THEN \* xrange() arg 3 must not be zero
                         /\ Done("put_file", Error("ValueError", NoExc))
                         /\ UNCHANGED <<offset, command_id, pending, negVars>>
                    ELSE IF size < 0 \/ Len(f.data) = 0
                    THEN \* xrange(0, in_size, buffer_size) is empty
                         /\ Done("put_file", Ok)
                         /\ UNCHANGED <<offset, command_id, pending, negVars>>
                    ELSE /\ Running("put_file")
                         /\ offset' = 0
                         /\ EnterExec
    /\ UNCHANGED <<cfg, protocol, shell_id, remoteVars, remote, local,
                   out_file,
                   remote_ps1>>

\* def fetch_file(self, in_path, out_path), up to the first remote call
fetch_file ==
    /\ StartCall
    /\ Running("fetch_file")
    /\ offset' = 0
    /\ out_file' = FALSE
    /\ EnterExec
    /\ UNCHANGED <<cfg, protocol, shell_id, remoteVars, remote, local,
                   in_file, buffer_size, uploaded, remote_ps1, dest,
                   out_path, script_len>>

-----------------------------------------------------------------------------
(* _winrm_connect and _winrm_exec, one remote call per step *)

\* _winrm_connect ends with r; p is the Protocol object of the last attempt
NegEnd(r, p) ==
    /\ negResult' = r
    /\ IF r.kind = "raise"
       THEN /\ pc' = "return"
            /\ pending' = Raise(r.err)
            /\ UNCHANGED protocol
       ELSE /\ protocol' = IF r.kind = "None" THEN NoProtocol ELSE p
            /\ IF op = "_connect"
               THEN pc' = "return" /\ pending' = Response(0)
               ELSE /\ pc' = IF NeedsShell(shell_id) THEN "open_shell"
                                                     ELSE "run_command"
                    /\ UNCHANGED pending

\* One pass of the for loop of _winrm_connect, or the code after the loop
winrm_connect ==
    /\ pc = "winrm_connect"
    /\ IF idx > Len(Attempts)
       THEN /\ NegEnd(Exhausted(exc), NoProtocol)
            /\ UNCHANGED <<idx, exc, probes>>
       ELSE IF Skip(Attempts[idx])
       THEN /\ idx' = idx + 1
            /\ UNCHANGED <<exc, probes, negResult, protocol, pc, pending>>
       ELSE \E out \in ProbeOutcomes :
              LET att == Attempts[idx]
                  r == ProbeStep(att, out) IN
              /\ probes' = Append(probes, [i |-> idx, out |-> out])
              /\ exc' = IF out.ok THEN exc ELSE BindExc(exc, out)
              /\ IF r.kind = "continue"
                 THEN /\ idx' = idx + 1
                      /\ UNCHANGED <<negResult, protocol, pc, pending>>
                 ELSE /\ idx' = idx
                      /\ NegEnd(r, NewProtocol(att))
    /\ UNCHANGED <<cfg, shell_id, op, calls, outcome, negCount, command_id,
                   remoteVars, entry, remote, local, xferVars, sent, faulted,
                   remote_ps1>>

\* self.shell_id = self.protocol.open_shell()
open_shell ==
    /\ pc = "open_shell"
    /\ IF protocol = NoProtocol
       THEN /\ pc' = "return"
            /\ pending' = Raise(Error("AttributeError", NoExc))
            /\ UNCHANGED <<shell_id, openShells, faulted>>
       ELSE \E ok \in BOOLEAN :
              IF ok
              THEN /\ shell_id' = FreshShell
                   /\ openShells' = openShells \cup {FreshShell}
                   /\ pc' = "run_command"
                   /\ UNCHANGED <<pending, faulted>>
              ELSE /\ pc' = "return"
                   /\ pending' = Raise(Error("WinRMTransportError", NoExc))
                   /\ faulted' = TRUE
                   /\ UNCHANGED <<shell_id, openShells>>
    /\ UNCHANGED <<cfg, protocol, op, calls, outcome, negVars, command_id,
                   openCmds, released, entry, remote, local, xferVars, sent,
                   remote_ps1>>

\* script = script_template % (out_path, offset, b64_data, in_size): what
\* the command of the current pass of put_file's loop carries
PutScript ==
    [path |-> out_path,
     offset |-> offset,
     data |-> Chunk(in_file.data, offset, buffer_size),
     size |-> Len(in_file.data)]

\* len(script) of the script of the current pass: the script measured at
\* line 197, with the offset in place of in_size, the base64 text of the
\* chunk in place of '' and the '.ps1' that lines 206-208 may have added
PutScriptLen ==
    script_len
        + (Digits(PutScript.offset) - Digits(PutScript.size))
        + B64Len(Len(PutScript.data))
        + 4 * (Len(PutScript.path) - Len(dest))

\* Whether the command of the current call writes to the path with '.ps1'
TargetsPs1 == op = "put_file" /\ EndsWithPs1(PutScript.path)

\* The remote file the script of put_file opens
Target == IF TargetsPs1 THEN remote_ps1 ELSE remote

\* What the remote side does with the command of the current call: the
\* response it will give, and the remote path afterwards.  A put_file script
\* may fail (status 1, nothing written), and does on a directory; a
\* fetch_file script may fail on a path that exists.
RunResults ==
    IF op = "put_file"
    THEN (IF Target.kind = "dir" THEN {}
          ELSE {[fault |-> FALSE, resp |-> Response(0),
                 remote |-> WriteChunk(Target, PutScript.offset,
                                       PutScript.data, PutScript.size)]})
         \cup {[fault |-> Target.kind # "dir", resp |-> Response(1),
                remote |-> Target]}
    ELSE IF op = "fetch_file"
    THEN {[fault |-> FALSE, resp |-> FetchScript(remote, offset, FetchBufferSize),
           remote |-> remote]}
         \cup (IF remote.kind = "none" THEN {}
               ELSE {[fault |-> TRUE, resp |-> Response(1), remote |-> remote]})
    ELSE {[fault |-> FALSE, resp |-> Response(st), remote |-> remote] :
             st \in {0, 1}}

\* command_id = self.protocol.run_command(self.shell_id, command, args)
run_command ==
    /\ pc = "run_command"
    /\ sent' = sent + 1
    /\ \E ok \in BOOLEAN :
         IF ok
         THEN \E r \in RunResults :
                /\ command_id' = FreshCmd
                /\ openCmds' = openCmds \cup {FreshCmd}
                /\ pc' = "get_command_output"
                /\ pending' = r.resp
                /\ remote' = IF TargetsPs1 THEN remote ELSE r.remote
                /\ remote_ps1' = IF TargetsPs1 THEN r.remote ELSE remote_ps1
                /\ faulted' = (faulted \/ r.fault)
         ELSE /\ command_id' = 0
              /\ pc' = IF NeedsCleanup(0) THEN "cleanup_command" ELSE "return"
              /\ pending' = Raise(Error("WinRMTransportError", NoExc))
              /\ faulted' = TRUE
              /\ UNCHANGED <<openCmds, remote,
                   remote_ps1>>
    /\ UNCHANGED <<cfg, protocol, shell_id, op, calls, outcome, negVars,
                   openShells, released, entry, local, xferVars>>

\* response = Response(self.protocol.get_command_output(shell_id, command_id))
get_command_output ==
    /\ pc = "get_command_output"
    /\ \E ok \in BOOLEAN :
         /\ pending' = IF ok THEN pending
                       ELSE Raise(Error("WinRMTransportError", NoExc))
         /\ faulted' = (faulted \/ ~ok)
    /\ pc' = IF NeedsCleanup(command_id) THEN "cleanup_command" ELSE "return"
    /\ UNCHANGED <<cfg, protocol, shell_id, op, calls, outcome, negVars,
                   command_id, remoteVars, entry, remote, local, xferVars,
                   sent,
                   remote_ps1>>

\* finally: self.protocol.cleanup_command(self.shell_id, command_id);
\* cleanup_command is taken to succeed
cleanup_command ==
    /\ pc = "cleanup_command"
    /\ openCmds' = openCmds \ {command_id}
    /\ pc' = "return"
    /\ UNCHANGED <<cfg, protocol, shell_id, op, calls, outcome, negVars,
                   command_id, pending, openShells, released, entry, remote,
                   local, xferVars, sent, faulted,
                   remote_ps1>>

-----------------------------------------------------------------------------
(* _winrm_exec or _winrm_connect hands its result to the public method *)

\* The public method returns (e is Ok) or raises e
Finish(e) ==
    /\ op' = "idle"
    /\ pc' = "idle"
    /\ outcome' = [op |-> op, type |-> e.type, text |-> e.text,
                   std_err |-> e.std_err]
    /\ command_id' = 0
    /\ pending' = NoPending
    /\ idx' = 0
    /\ exc' = NoExc
    /\ probes' = <<>>
    /\ negResult' = NegIdle
    /\ UNCHANGED negCount

\* The loop of put_file or fetch_file goes round: _winrm_exec is called again
Continue ==
    /\ UNCHANGED <<op, outcome>>
    /\ EnterExec

FailedOnlyRaise(p) == p.kind = "raise"

\* raise IOError(result.std_err.encode('utf-8')), caught two lines below by
\* except Exception: traceback.print_exc();
\* raise AnsibleError("failed to transfer file to %s" % out_path):
\* the text of the exception caught goes to the local error stream only
TransferFailed(p) == Error("transfer_failed", NoExc)

\* An exception out of _winrm_exec, or if result.status_code != 0: raise
Failed(p) == p.kind = "raise" \/ p.status # 0

\* _connect: return self, or the error of _winrm_connect as it is
ConnectReturn ==
    /\ Finish(IF pending.kind = "raise" THEN pending.err ELSE Ok)
    /\ UNCHANGED <<local, xferVars>>

ExecOutcomeUnwrapped(p) == IF p.kind = "raise" THEN p.err ELSE Ok

\* try: result = self._winrm_exec(...); except Exception:
\* raise AnsibleError("failed to exec cmd %s" % cmd)
ExecOutcome(p) ==
    IF p.kind = "raise" THEN Error("exec_failed", NoExc) ELSE Ok

\* exec_command, lines 171-178: except Exception: raise AnsibleError(...)
ExecReturn ==
    /\ Finish(ExecOutcome(pending))
    /\ UNCHANGED <<local, xferVars>>

\* put_file, lines 214-218, and the next pass of the loop over the offsets
PutReturn ==
    /\ IF Failed(pending)
       THEN /\ Finish(TransferFailed(pending))
            /\ UNCHANGED <<offset, uploaded, out_path>>
       ELSE IF offset + buffer_size < Len(in_file.data)
       THEN /\ Continue
            /\ offset' = offset + buffer_size
            /\ out_path' = NextOutPath(out_path, offset + buffer_size,
                                      Chunk(in_file.data, offset + buffer_size,
                                            buffer_size))
            /\ UNCHANGED uploaded
       ELSE /\ Finish(Ok)
            /\ uploaded' = TRUE
            /\ UNCHANGED <<offset, out_path>>
    /\ UNCHANGED <<local, in_file, buffer_size, out_file, dest, script_len>>

SentinelIgnored(p) == FALSE

\* if result.std_out.strip() == '[DIR]': data = None
IsDirSentinel(p) == p.dir

OpensOverDirectory(l) == FALSE

ShortChunkOrFull(data) == Len(data) <= FetchBufferSize

\* if len(data) < buffer_size: break
ShortChunk(data) == Len(data) < FetchBufferSize

\* if os.path.isdir(out_path): break, asked before the file is opened
LocalIsDir(l) == l.kind = "dir"

\* fetch_file, lines 256-280, and the next pass of the while loop
FetchReturn ==
    /\ IF Failed(pending)
       THEN /\ Finish(TransferFailed(pending))
            /\ out_file' = FALSE
            /\ UNCHANGED <<local, offset>>
       ELSE IF IsDirSentinel(pending)
       THEN /\ local' = MakeDirsSafe(local)
            /\ Finish(Ok)
            /\ out_file' = FALSE
            /\ UNCHANGED offset
       ELSE IF ~out_file /\ LocalIsDir(local)
       THEN /\ Finish(Ok)
            /\ UNCHANGED <<local, offset, out_file>>
       ELSE /\ local' = File((IF out_file THEN local.data ELSE <<>>)
                             \o pending.data)
            /\ IF ShortChunk(pending.data)
               THEN /\ Finish(Ok)
                    /\ out_file' = FALSE
                    /\ UNCHANGED offset
               ELSE /\ Continue
                    /\ out_file' = TRUE
                    /\ offset' = offset + Len(pending.data)
    /\ UNCHANGED <<in_file, buffer_size, uploaded, dest, out_path,
                   script_len>>

return ==
    /\ pc = "return"
    /\ IF op = "_connect" THEN ConnectReturn
       ELSE IF op = "exec_command" THEN ExecReturn
       ELSE IF op = "put_file" THEN PutReturn
       ELSE FetchReturn
    /\ UNCHANGED <<cfg, protocol, shell_id, calls, entry, remoteVars, remote,
                   sent, faulted,
                   remote_ps1>>

-----------------------------------------------------------------------------
(* Specifications *)

Configs == [port : Ports, have_kerberos : BOOLEAN, user_has_at : BOOLEAN]

\* The session after __init__: no protocol, no shell
InitSession ==
    /\ protocol = NoProtocol
    /\ shell_id = 0
    /\ op = "idle"
    /\ pc = "idle"
    /\ calls = 0
    /\ outcome = [op |-> "none", type |-> "none", text |-> NoExc,
                  std_err |-> ""]
    /\ idx = 0
    /\ exc = NoExc
    /\ probes = <<>>
    /\ negResult = NegIdle
    /\ negCount = 0
    /\ command_id = 0
    /\ pending = NoPending
    /\ openShells = {}
    /\ openCmds = {}
    /\ released = <<>>
    /\ in_file = NoFile
    /\ buffer_size = 0
    /\ offset = 0
    /\ out_file = FALSE
    /\ sent = 0
    /\ faulted = FALSE
    /\ uploaded = FALSE
    /\ remote_ps1 = NoPath
    /\ dest = <<>>
    /\ out_path = <<>>
    /\ script_len = 0

Init ==
    /\ InitSession
    /\ cfg \in Configs
    /\ remote = Stale
    /\ local = NoPath
    /\ entry = [connected |-> FALSE, shell |-> 0, negCount |-> 0,
                remote |-> remote, local |-> local]

Step ==
    \/ winrm_connect
    \/ open_shell
    \/ run_command
    \/ get_command_output
    \/ cleanup_command
    \/ return

Next ==
    \/ connect
    \/ exec_command
    \/ close
    \/ put_file({NoFile, LocalFile(0), LocalFile(3)}, {3036}, {BasePath})
    \/ fetch_file
    \/ Step

Spec == Init /\ [][Next]_vars

\* File transfers on a session whose negotiation has one attempt to make
InitTransfer ==
    /\ InitSession
    /\ cfg = [port |-> 0, have_kerberos |-> FALSE, user_has_at |-> FALSE]
    /\ remote \in {NoPath, Stale, Directory}
    /\ local \in {NoPath, Directory}
    /\ entry = [connected |-> FALSE, shell |-> 0, negCount |-> 0,
                remote |-> remote, local |-> local]

NextTransfer ==
    \/ put_file({NoFile} \cup {LocalFile(n) : n \in 0..MaxSize}, ScriptLens,
                {BasePath})
    \/ fetch_file
    \/ Step

SpecTransfer == InitTransfer /\ [][NextTransfer]_vars

\* fetch_file alone, on remote files of every length up to MaxSize.  The
\* caller is blocked in each remote call until it returns or raises, so a
\* call under way always takes its next step.
InitFetch ==
    /\ InitSession
    /\ cfg = [port |-> 0, have_kerberos |-> FALSE, user_has_at |-> FALSE]
    /\ remote \in {File(Payload(n)) : n \in 0..MaxSize}
    /\ local \in {NoPath, Directory}
    /\ entry = [connected |-> FALSE, shell |-> 0, negCount |-> 0,
                remote |-> remote, local |-> local]

NextFetch ==
    \/ fetch_file
    \/ Step

SpecFetch == InitFetch /\ [][NextFetch]_vars /\ WF_vars(Step)

\* put_file alone, on files with and without the marker and on remote paths
\* with and without the extension
ScriptFiles ==
    {[exists |-> TRUE, data |-> d] :
        d \in {Marker, <<35, 80, 1>>, <<35>>, <<1, 2>> \o Marker, Payload(2)}}

ScriptPaths == {BasePath, BasePath \o <<".ps1">>, BasePath \o <<".PS1">>}

NextScript ==
    \/ put_file(ScriptFiles, {3036, 3037}, ScriptPaths)
    \/ Step

InitScript ==
    /\ InitSession
    /\ cfg = [port |-> 0, have_kerberos |-> FALSE, user_has_at |-> FALSE]
    /\ remote \in {NoPath, Stale, Directory}
    /\ local = NoPath
    /\ entry = [connected |-> FALSE, shell |-> 0, negCount |-> 0,
                remote |-> remote, local |-> local]

SpecScript == InitScript /\ [][NextScript]_vars

-----------------------------------------------------------------------------
(* Properties of _winrm_exec: the command handle *)

\* C1: every command handle that run_command returned is released by
\* cleanup_command before _winrm_exec returns or lets its error through,
\* whether run_command and get_command_output succeed or raise: at most one
\* command handle is open at any moment, it is the one of the call under
\* way, and none is open before run_command or once _winrm_exec has ended.
C1_CommandHandleReleased ==
    /\ Cardinality(openCmds) <= 1
    /\ pc \in {"get_command_output", "cleanup_command"}
          => command_id # 0 /\ openCmds = {command_id}
    /\ pc \in {"idle", "winrm_connect", "open_shell", "run_command", "return"}
          => openCmds = {}

\* A second or later call whose get_command_output raised after run_command
\* had returned a handle, at the moment _winrm_exec lets the error through
C1_Witness ==
    /\ calls >= 2
    /\ pc = "return"
    /\ command_id # 0
    /\ pending.kind = "raise"
    /\ openCmds = {}

-----------------------------------------------------------------------------
(* Properties of _winrm_connect: the negotiation *)

KerberosUnusable == ~cfg.have_kerberos \/ ~cfg.user_has_at

Skipped(i) == Attempts[i][1] = "kerberos" /\ KerberosUnusable

NegDone == negResult.kind \notin {"idle", "running"}

LastProbe == probes[Len(probes)]

\* The probes follow the list's order, leave out exactly the kerberos
\* attempts that cannot be made, and leave no other attempt out on the way
ProbesInOrder ==
    \A k \in 1..Len(probes) :
        /\ ~Skipped(probes[k].i)
        /\ k > 1 => probes[k - 1].i < probes[k].i
        /\ \A j \in 1..(probes[k].i - 1) :
               Skipped(j) \/ \E m \in 1..(k - 1) : probes[m].i = j

\* The negotiation has returned the Protocol object of probe k, its last
ReturnedAt(k) ==
    /\ k = Len(probes)
    /\ negResult.kind = "return"
    /\ pc # "winrm_connect"
    /\ protocol = [transport |-> Attempts[probes[k].i][1],
                   scheme |-> Attempts[probes[k].i][2]]

\* C2 as stated: the attempts are probed in the list's order, kerberos
\* attempts that cannot be made are never probed, and the first attempt whose
\* probe succeeds or fails with an error carrying code 411 ends the
\* negotiation, which returns that attempt's connection.
C2_Original ==
    /\ ProbesInOrder
    /\ \A k \in 1..Len(probes) :
           (probes[k].out.ok \/ probes[k].out.code = 411) => ReturnedAt(k)

\* C2 (amended): the attempts are probed in the list's order, kerberos
\* attempts that cannot be made are never probed, and the first attempt whose
\* probe succeeds, or fails with an error that carries code 411 and is not
\* classified as a timeout, ends the negotiation, which returns that attempt's
\* connection; the negotiation returns a connection in no other case.
C2_FirstUsableAttempt ==
    /\ ProbesInOrder
    /\ \A k \in 1..Len(probes) :
           (probes[k].out.ok \/ (probes[k].out.code = 411 /\ ~probes[k].out.timedOut))
               => ReturnedAt(k)
    /\ negResult.kind = "return"
           => /\ probes # <<>>
              /\ LastProbe.out.ok \/ (LastProbe.out.code = 411 /\ ~LastProbe.out.timedOut)

\* Port 5985 without kerberos: the first entry is skipped, plaintext over
\* http fails with another error, plaintext over https answers 411
C2_Witness ==
    /\ Port = HttpPort
    /\ KerberosUnusable
    /\ Len(probes) = 2
    /\ probes[1].i = 2
    /\ probes[2].i = 3
    /\ ~probes[2].out.ok
    /\ probes[2].out.code = 411
    /\ negResult.kind = "return"
    /\ protocol = [transport |-> "plaintext", scheme |-> "https"]

\* C3: a probe that fails with an error classified as a timeout, at any
\* position, ends the negotiation at once with the timeout error: it is the
\* last probe sent, and the session stores no connection handle.
C3_TimeoutHalts ==
    \A k \in 1..Len(probes) :
        (~probes[k].out.ok /\ probes[k].out.timedOut)
            => /\ k = Len(probes)
               /\ negResult.kind = "raise"
               /\ negResult.err.type = "timeout"
               /\ pc = "return"
               /\ pending.kind = "raise"
               /\ pending.err.type = "timeout"
               /\ protocol = NoProtocol

\* The third attempt of the http list times out after two other failures
C3_Witness ==
    /\ Len(probes) = 3
    /\ probes[3].out.timedOut
    /\ negResult.err.type = "timeout"
    /\ pc = "return"

\* C4: a probe that fails with an error carrying code 401 and not classified
\* as a timeout, at any position, ends the negotiation at once with the
\* authentication error: it is the last probe sent, and the session stores no
\* connection handle.
C4_AuthFailureHalts ==
    \A k \in 1..Len(probes) :
        (~probes[k].out.ok /\ probes[k].out.code = 401 /\ ~probes[k].out.timedOut)
            => /\ k = Len(probes)
               /\ negResult.kind = "raise"
               /\ negResult.err.type = "auth"
               /\ pc = "return"
               /\ pending.kind = "raise"
               /\ pending.err.type = "auth"
               /\ protocol = NoProtocol

\* The second probe answers 401 after a first one that failed otherwise
C4_Witness ==
    /\ Len(probes) = 2
    /\ probes[2].out.code = 401
    /\ ~probes[2].out.timedOut
    /\ negResult.err.type = "auth"
    /\ pc = "return"

OtherError(out) == ~out.ok /\ ~out.timedOut /\ out.code \notin {401, 411}

\* C5: when every attempt of the list was skipped or failed with an error
\* that is no timeout, no 401 and no 411, the negotiation fails with the text
\* of the last transport error observed (a generic error if none was); and a
\* negotiation never ends without a connection handle or an error.
C5_ExhaustedRaisesLast ==
    /\ NegDone => negResult.kind \in {"return", "raise"}
    /\ negResult.kind = "return" => protocol # NoProtocol
    /\ (NegDone /\ \A k \in 1..Len(probes) : OtherError(probes[k].out))
           => /\ negResult.kind = "raise"
              /\ pc = "return"
              /\ pending = Raise(negResult.err)
              /\ IF probes = <<>>
                 THEN negResult.err.type = "exhausted"
                 ELSE /\ negResult.err.type = "transport"
                      /\ negResult.err.text = LastProbe.out

\* Two attempts failed with different errors and the list is exhausted
C5_Witness ==
    /\ NegDone
    /\ Len(probes) = 2
    /\ OtherError(probes[1].out)
    /\ OtherError(probes[2].out)
    /\ probes[1].out # probes[2].out
    /\ negResult.err.type = "transport"
    /\ negResult.err.text = probes[2].out

-----------------------------------------------------------------------------
(* Properties of the session's handles *)

IsClose == outcome'.op = "close" /\ calls' = calls + 1

HandlesInv ==
    /\ Cardinality(openShells) <= 1
    /\ shell_id # 0 => protocol # NoProtocol
    /\ openShells = IF shell_id # 0 THEN {shell_id} ELSE {}

\* C6: over every sequence of public calls the session holds at most one
\* connection handle and at most one open shell handle: _winrm_connect is
\* invoked only while no connection handle is stored, open_shell only while
\* no shell handle is stored, a stored shell handle implies a stored
\* connection handle, a stored connection handle is never replaced, and close
\* clears the shell handle and keeps the connection handle.
C6_AtMostOneOfEachHandle ==
    /\ []HandlesInv
    /\ [][/\ negCount' # negCount => protocol = NoProtocol
          /\ (pc = "open_shell" /\ pc' # "open_shell") => shell_id = 0
          /\ protocol # NoProtocol => protocol' = protocol
          /\ IsClose => shell_id' = 0 /\ protocol' = protocol]_vars

\* A third call runs its command in the shell an earlier call opened, on the
\* connection an earlier call negotiated
C6_Witness ==
    /\ calls = 3
    /\ pc = "get_command_output"
    /\ entry.connected
    /\ entry.shell # 0
    /\ shell_id = entry.shell
    /\ negCount = 1
    /\ released = <<>>

NoDuplicates(seq) ==
    \A i, j \in 1..Len(seq) : seq[i] = seq[j] => i = j

\* C7: close releases the shell handle exactly once.  With a connection and
\* a shell handle stored it hands that handle to close_shell and clears it;
\* without a shell handle it makes no remote call and changes nothing.  Only
\* close releases shell handles, none is released twice, and the connection
\* handle stays stored.
C7_CloseReleasesOnce ==
    /\ [][/\ IsClose =>
               IF protocol # NoProtocol /\ shell_id # 0
               THEN /\ released' = Append(released, shell_id)
                    /\ openShells' = openShells \ {shell_id}
                    /\ shell_id' = 0
                    /\ protocol' = protocol
               ELSE UNCHANGED <<protocol, shell_id, openShells, openCmds,
                                released, remote, local,
                   remote_ps1>>
          /\ released' # released => IsClose]_vars
    /\ [](NoDuplicates(released) /\ \A k \in 1..Len(released) :
                                        released[k] \notin openShells)

\* A close on a session that an earlier close has already left without a
\* shell handle
C7_Witness ==
    /\ pc = "idle"
    /\ outcome.op = "close"
    /\ entry.connected
    /\ entry.shell = 0
    /\ Len(released) = 1

\* The current call is an exec_command on a session that has run a command
\* in a shell and has been closed since
ExecAfterClose ==
    /\ op = "exec_command"
    /\ entry.connected
    /\ entry.shell = 0
    /\ released # <<>>

\* C8: after a command has run and the session has been closed, a further
\* exec_command does not negotiate again; it opens a shell handle that is not
\* one of the released ones, on the connection kept, runs its command with
\* that shell open, and succeeds unless a remote call fails.
C8_ReopenAfterClose ==
    ExecAfterClose =>
        /\ negCount = entry.negCount
        /\ pc # "winrm_connect"
        /\ protocol # NoProtocol
        /\ pc \in {"run_command", "get_command_output", "cleanup_command"}
              => /\ shell_id # 0
                 /\ shell_id \in openShells
                 /\ \A k \in 1..Len(released) : released[k] # shell_id
        /\ (pc = "return" /\ ~faulted)
              => /\ pending.kind = "response"
                 /\ sent = 1
                 /\ shell_id \in openShells
                 /\ \A k \in 1..Len(released) : released[k] # shell_id

\* Such an exec_command has its response
C8_Witness ==
    /\ ExecAfterClose
    /\ pc = "return"
    /\ pending.kind = "response"
    /\ shell_id # 0

-----------------------------------------------------------------------------
(* Properties of put_file and fetch_file *)

\* The payload sizes of the round trip, for a chunk size m
ListedSizes(m) == {0, 1, m - 1, m, m + 1, 3 * m}

\* C9: put_file of a local file followed by fetch_file of the same remote
\* path, no remote call failing, leaves a local file with the bytes uploaded,
\* for the sizes 0, 1, maxChunk-1, maxChunk, maxChunk+1 and 3*maxChunk.
C9_RoundTrip ==
    (/\ pc = "idle"
     /\ outcome.op = "fetch_file"
     /\ uploaded
     /\ ~faulted
     /\ entry.local.kind # "dir"
     /\ buffer_size > 0
     /\ Len(in_file.data) \in ListedSizes(buffer_size))
        => /\ outcome.type = "ok"
           /\ local = File(in_file.data)

\* C10: put_file of an empty local file onto a remote path that holds bytes
\* issues at least one command and returns with the remote file empty.
C10_EmptyUploadTruncates ==
    (/\ pc = "idle"
     /\ outcome.op = "put_file"
     /\ outcome.type = "ok"
     /\ in_file.exists
     /\ Len(in_file.data) = 0
     /\ entry.remote.kind = "file"
     /\ Len(entry.remote.data) > 0)
        => /\ sent >= 1
           /\ remote = File(<<>>)

-----------------------------------------------------------------------------
(* Properties of fetch_file *)

\* The current or last call is a fetch_file
Fetching == outcome.op = "fetch_file"

\* C11: fetch_file of a remote path that does not exist fails with the
\* transfer error after exactly one remote request (the script's exit 1),
\* and at no point of the call is a local file opened, created or written.
C11_MissingRemotePath ==
    (Fetching /\ entry.remote.kind = "none")
        => /\ local = entry.local
           /\ ~out_file
           /\ sent <= 1
           /\ pending.kind = "response" => pending.status # 0 /\ sent = 1
           /\ pc = "idle" => outcome.type = "transfer_failed"

\* The script has run on the missing path and fetch_file has raised
C11_Witness ==
    /\ Fetching
    /\ pc = "idle"
    /\ entry.remote.kind = "none"
    /\ entry.local.kind = "none"
    /\ ~faulted
    /\ sent = 1
    /\ outcome.type = "transfer_failed"
    /\ local = NoPath

-----------------------------------------------------------------------------
(* Properties of put_file *)

\* The current or last call is a put_file that got as far as its loop
Putting ==
    /\ outcome.op = "put_file"
    /\ in_file.exists
    /\ buffer_size > 0
    /\ Len(in_file.data) > 0

\* The first chunk of the file being uploaded carries the marker
FirstChunkMarked ==
    LET first == SubSeq(in_file.data, 1, Min(buffer_size, Len(in_file.data)))
    IN  Len(first) >= 2 /\ first[1] = 35 /\ first[2] \in {80, 112}

\* C13: when the first chunk begins, in any letter case, with the marker and
\* the remote path given does not end, in any letter case, in '.ps1', the
\* commands of put_file, the first and every later one, all target the path
\* given with one '.ps1' added; otherwise they all target the path given.
C13_Ps1SuffixOnce ==
    Putting
        => out_path = IF FirstChunkMarked /\ dest[Len(dest)] \notin {".ps1", ".PS1"}
                      THEN dest \o <<".ps1">>
                      ELSE dest

\* A later command of an upload whose first chunk carried the marker is
\* about to be sent to the path with the suffix
C13_Witness ==
    /\ op = "put_file"
    /\ pc = "run_command"
    /\ sent = 1
    /\ offset > 0
    /\ FirstChunkMarked
    /\ dest = BasePath
    /\ out_path = <<"file", ".ps1">>

\* Commands that an upload of size bytes in chunks of m bytes takes
Ceil(size, m) == (size + m - 1) \div m

\* The commands of the current put_file have all succeeded so far
PutUnfaulted == Putting /\ ~faulted /\ entry.remote.kind # "dir"

\* C14: an upload of S > 0 bytes with maxChunk > 0 issues ceil(S/maxChunk)
\* commands; command k carries the offset k*maxChunk, the bytes from there
\* up to (k+1)*maxChunk or S, and the final size S; after every successful
\* command the remote file is S bytes long and holds the bytes sent so far;
\* after the last one it equals the local file.
C14_ChunkedUpload ==
    PutUnfaulted
        => LET S == Len(in_file.data)
               m == buffer_size
           IN  /\ sent <= Ceil(S, m)
               /\ (op = "put_file" /\ pc \in {"winrm_connect", "open_shell",
                                              "run_command"})
                      => /\ PutScript.offset = sent * m
                         /\ PutScript.offset < S
                         /\ PutScript.data =
                                [i \in 1..(Min((sent + 1) * m, S) - sent * m)
                                    |-> in_file.data[sent * m + i]]
                         /\ PutScript.size = S
               /\ pending.kind = "response"
                      => /\ pending.status = 0
                         /\ offset = (sent - 1) * m
                         /\ remote.kind = "file"
                         /\ Len(remote.data) = S
                         /\ \A i \in 1..Min(sent * m, S) :
                                remote.data[i] = in_file.data[i]
               /\ (pc = "idle" /\ outcome.type = "ok")
                      => /\ sent = Ceil(S, m)
                         /\ remote = File(in_file.data)
               /\ (pc = "idle" /\ sent = Ceil(S, m)) => outcome.type = "ok"

\* Five bytes have gone out in three commands of two, two and one bytes
\* onto the remote file that was there
C14_Witness ==
    /\ PutUnfaulted
    /\ pc = "idle"
    /\ outcome.type = "ok"
    /\ entry.remote = Stale
    /\ Len(in_file.data) = 5
    /\ buffer_size = 2
    /\ sent = 3
    /\ remote = File(in_file.data)

\* A command of put_file has come back with a status that is not zero
ChunkFailed ==
    /\ op = "put_file"
    /\ pc = "return"
    /\ pending.kind = "response"
    /\ pending.status # 0

\* C15: when a command of put_file returns a status that is not zero, the
\* upload stops there: put_file raises the transfer error, the error carries
\* the remote error text of that command, no further command is issued and
\* the remote file keeps the chunks written so far.
C15_FailedChunkAborts ==
    [][ChunkFailed
          => /\ op' = "idle"
             /\ outcome'.type = "transfer_failed"
             /\ outcome'.std_err = pending.std_err
             /\ sent' = sent
             /\ remote' = remote]_vars

\* C16: whatever the length of the remote path and the size of the local
\* file, the chunk size that put_file derives from the command measured
\* without data is positive, and every command it sends, with the real
\* offset, the base64 text of the chunk and the '.ps1' added after the
\* measurement, is at most 8190 characters long.
C16_CommandsFit ==
    (outcome.op = "put_file" /\ in_file.exists)
        => /\ buffer_size > 0
           /\ (op = "put_file" /\ pc = "run_command")
                  => EncodedLen(PutScriptLen) <= MaxCommandLength

-----------------------------------------------------------------------------
(* Properties of fetch_file: the loop over the offsets *)

\* A fetch_file of a regular remote file, no remote call of which has failed
FetchRegular == Fetching /\ entry.remote.kind = "file" /\ ~faulted

\* Request k is sent at offset k * FetchBufferSize, the offset moves on only
\* after a chunk of FetchBufferSize bytes, and floor(L / FetchBufferSize) + 1
\* requests are sent in all
FetchProgress ==
    LET L == Len(remote.data)
        c == FetchBufferSize
    IN  /\ sent <= (L \div c) + 1
        /\ (op = "fetch_file" /\ pc \in {"winrm_connect", "open_shell",
                                         "run_command"})
               => offset = sent * c /\ offset <= L
        /\ pending.kind = "response"
               => /\ offset = (sent - 1) * c
                  /\ (Len(pending.data) = c) = (sent <= L \div c)
                  /\ Len(pending.data) <= c
        /\ (pc = "idle" /\ outcome.type = "ok") => sent = (L \div c) + 1
        /\ (pc = "idle" /\ sent = (L \div c) + 1) => outcome.type = "ok"

\* C17 as stated: for a regular remote file of L bytes whose requests all
\* succeed, fetch_file sends floor(L / chunkSize) + 1 requests at the offsets
\* 0, chunkSize, 2 * chunkSize, ..., each once, and stops after the first
\* chunk shorter than chunkSize.
C17_Original == FetchRegular => FetchProgress

\* C17, amended: the same when the local destination is not a directory,
\* and every fetch_file comes to an end.
C17_FetchTerminates ==
    /\ []((FetchRegular /\ entry.local.kind # "dir") => FetchProgress)
    /\ (op = "fetch_file") ~> (op = "idle")

\* A file of two full chunks has been fetched in three requests, the last
\* of which was answered with the two bytes of an empty read
C17_Witness ==
    /\ FetchRegular
    /\ entry.local.kind = "none"
    /\ pc = "idle"
    /\ outcome.type = "ok"
    /\ Len(remote.data) = 2 * FetchBufferSize
    /\ sent = 3

-----------------------------------------------------------------------------
(* Properties of the session across failures *)

\* The public methods that go through _winrm_exec
ExecOps == {"exec_command", "put_file", "fetch_file"}

\* The last call has raised its execution or transfer error and the session
\* holds a connection handle and a shell handle
FailedWithHandles ==
    /\ pc = "idle"
    /\ outcome.type \in {"exec_failed", "transfer_failed"}
    /\ protocol # NoProtocol
    /\ shell_id # 0

\* _winrm_exec is past lines 133-136
AfterHandles ==
    pc \in {"run_command", "get_command_output", "cleanup_command", "return"}

\* C18: a failed execution or transfer leaves the session usable.  No step
\* of _winrm_exec from run_command on, whether the call raises, returns a
\* status that is not zero or succeeds, changes the connection handle or the
\* shell handle stored, and the shell stays open; the operation that follows
\* a failure goes straight to run_command with the same handles, with no
\* negotiation and no open_shell, as does every operation that starts with
\* both handles stored.
C18_FailureKeepsSession ==
    /\ [][AfterHandles
             => (/\ protocol' = protocol
                 /\ shell_id' = shell_id
                 /\ openShells' = openShells)]_vars
    /\ [][(FailedWithHandles /\ op' \in ExecOps)
             => (/\ pc' = "run_command"
                 /\ negCount' = negCount
                 /\ protocol' = protocol
                 /\ shell_id' = shell_id)]_vars
    /\ []((op \in ExecOps /\ entry.connected /\ entry.shell # 0)
             => /\ negCount = entry.negCount
                /\ protocol # NoProtocol
                /\ shell_id = entry.shell
                /\ shell_id \in openShells
                /\ pc \notin {"winrm_connect", "open_shell"})

\* A put_file whose command failed has raised, the handles it set up are
\* stored and a further call can be made
C18_Witness ==
    /\ FailedWithHandles
    /\ outcome.op = "put_file"
    /\ outcome.type = "transfer_failed"
    /\ faulted
    /\ sent = 1
    /\ shell_id \in openShells
    /\ calls < MaxOps

\* C19: an exec_command issues run_command at most once.  When negotiation,
\* open_shell, run_command or get_command_output fails, the call raises the
\* execution failure; the command is not sent again and, once it has been
\* sent, no transport is negotiated and no shell opened in that call.
C19_ExecIssuesOnce ==
    outcome.op = "exec_command"
        => /\ sent <= 1
           /\ negCount <= entry.negCount + 1
           /\ sent = 1 => pc \notin {"winrm_connect", "open_shell",
                                     "run_command"}
           /\ pc = "idle"
                  => /\ outcome.type =
                            IF faulted \/ protocol = NoProtocol
                            THEN "exec_failed" ELSE "ok"
                     /\ outcome.type = "ok" => sent = 1

\* The command was sent once, a remote call of _winrm_exec failed, the
\* command handle is released and exec_command has raised
C19_Witness ==
    /\ outcome.op = "exec_command"
    /\ pc = "idle"
    /\ outcome.type = "exec_failed"
    /\ faulted
    /\ sent = 1
    /\ openCmds = {}

-----------------------------------------------------------------------------
(* Properties of fetch_file: the local destination *)

\* C20: when the first data chunk of a regular remote file arrives and the
\* local destination is a directory, fetch_file stops without writing: it
\* opens no local file, writes no byte, leaves the directory as it is and
\* sends no further request.
C20_LocalDirectoryKept ==
    (Fetching /\ entry.remote.kind = "file" /\ entry.local.kind = "dir")
        => /\ local = entry.local
           /\ ~out_file
           /\ sent <= 1
           /\ (op = "fetch_file" /\ sent = 1)
                  => pc \in {"get_command_output", "cleanup_command", "return"}

\* The first chunk of a file of more than one chunk has arrived, the local
\* destination is a directory, and fetch_file has ended after one request
C20_Witness ==
    /\ Fetching
    /\ pc = "idle"
    /\ ~faulted
    /\ entry.remote.kind = "file"
    /\ Len(entry.remote.data) > FetchBufferSize
    /\ entry.local = Directory
    /\ local = Directory
    /\ sent = 1
    /\ outcome.type = "ok"

====
